---- MODULE Spec2Model ----
(***************************************************************************)
(* Letter Boxed solver: the puzzle model (src/src/lib.rs), the per-puzzle  *)
(* SmartDictionary (src/src/dictionary.rs), the Pre-Dictionary greedy DFS  *)
(* (src/src/solvers/pre_dict.rs), the A* solver                            *)
(* (src/src/solvers/a_star.rs) and the Brute Force solver                  *)
(* (src/src/solvers/brute_force.rs).                                       *)
(*                                                                         *)
(* A letter is a one-character string, a word a sequence of letters.       *)
(* Indices are 0-based as in the source; a TLA+ sequence is read at idx+1. *)
(***************************************************************************)
EXTENDS Integers, Sequences, FiniteSets, TLC

VARIABLES
    sides,          \* LBPuzzle.sides: S sides of L letters each
    max_words,      \* LBPuzzle.max_words
    raw,            \* the lines of the dictionary file
    _map,           \* SmartDictionary._map: first letter -> words
    _flat,          \* SmartDictionary._flat: <<index, word>> pairs
    stack,          \* call stack of _solve_helper
    dfs_result,     \* what solve_pre_dict returned
    edge_weight,    \* AStarSolver.edge_weight
    parents,        \* astar: the nodes seen, each with its parent and cost
    to_see,         \* astar: the open heap
    search,         \* what astar returned to _helper
    astar_result,   \* what AStarSolver::_helper returned
    v_solution,     \* the argument of the last validate_solution call
    v_result,       \* what that call returned
    call,           \* the last call of a function of the library, with
                    \* its arguments and what it returned
    solution_queue, \* brute_force::solve: the queue of candidates
    bf_result,      \* what brute_force::solve returned
    pc              \* position of the caller

vars == <<sides, max_words, raw, _map, _flat, stack, dfs_result, edge_weight,
          parents, to_see, search, astar_result, v_solution, v_result, call,
          solution_queue, bf_result, pc>>

puzzle_vars == <<sides, max_words, raw>>
dict_vars == <<_map, _flat>>
dfs_vars == <<stack, dfs_result>>
astar_vars == <<edge_weight, parents, to_see, search, astar_result>>
validate_vars == <<v_solution, v_result>>
brute_vars == <<solution_queue, bf_result>>

-----------------------------------------------------------------------------
(* Bounds of the model *)

\* most lines in the dictionary file
MaxRaw == 3
\* largest max_words a puzzle is built with
MaxWordsBound == 2
\* edge_weight_factor ranges over 0/FactorDen .. FactorDen/FactorDen
FactorDen == 4
\* most words in a sequence handed to validate_solution directly
MaxCand == 2
\* longest string handed to from_str
MaxStr == 5
\* most sides, and most letters on a side, of the type from_str is called on
MaxSides == 2
MaxSideLen == 2
\* most words of a Brute Force candidate that is still extended
MaxBfWords == 2

\* the characters of the strings handed to from_str
Chars == {"a", "b", " "}

\* the boards: a 3x2 and a 2x2 board of different letters, and a 3x1 board
\* on which the letter a stands at two positions
Boards ==
    { << <<"a", "b">>, <<"c", "d">>, <<"e", "f">> >>,
      << <<"a", "b">>, <<"c", "d">> >>,
      << <<"a">>, <<"b">>, <<"a">> >> }

\* the lines a dictionary file is made of (the third ends in a blank)
Lines ==
    << <<"a", "c", "a", "c", "a", "c", "e">>,
       <<"a", "c", "e", "b", "d", "f">>,
       <<"a", "c", " ">>,
       <<"a", "d", "b", "f">>,
       <<"e", "b", "d", "f">>,
       <<"e", "b", "d">>,
       <<"d", "f", "a">>,
       <<"c", "a", "d", "b">>,
       <<"a", "a", "b">> >>

\* the words candidate solutions are made of
CandWords ==
    { <<"a", "c", "e", "b", "d", "f">>,
      <<"a", "c", "e">>,
      <<"e", "b", "d", "f">>,
      <<"a", "d", "b", "f">>,
      <<"c", "a", "d", "b">>,
      <<"a", "c">>,
      <<"a", "b", "c">>,
      <<"a", "b", "a">>,
      <<"a", "a", "b">> }

-----------------------------------------------------------------------------
(* Helpers on sequences *)

Range(s) == { s[i] : i \in 1..Len(s) }

Last(s) == s[Len(s)]

Min(set) == CHOOSE x \in set : \A y \in set : x <= y

\* Option<T>
None == [some |-> FALSE, val |-> <<>>]
Some(x) == [some |-> TRUE, val |-> x]

\* Option<char>: no letter
NoLetter == "None"

\* no function of the library has been called yet
NoCall == [op |-> "none"]

\* all sequences over set of length lo..hi
SeqsOf(set, lo, hi) == UNION { [1..n -> set] : n \in lo..hi }

-----------------------------------------------------------------------------
(* LBPuzzle (src/src/lib.rs) *)

S == Len(sides)
L == Len(sides[1])

n_letters == S * L

all_letters == [i \in 1..(S * L) |-> sides[((i - 1) \div L) + 1][((i - 1) % L) + 1]]

\* idx_to_side as it would be if it divided by the number of sides
idx_to_side_BySides(idx) ==
    IF 0 <= idx /\ idx < n_letters THEN idx \div S ELSE -1

\* Option<i32>, with None written -1 (the only use is unwrap_or(-1))
idx_to_side(idx) ==
    IF 0 <= idx /\ idx < n_letters THEN idx \div L ELSE -1

is_idx_on_side(idx, side) == idx_to_side(idx) = side

valid_letters(prev_idx) ==
    UNION { Range(sides[i + 1]) : i \in { j \in 0..(S - 1) : ~is_idx_on_side(prev_idx, j) } }

\* the first loop as it would be if it let words of 2 letters through
HasShortWord_Two(solution) == \E i \in 1..Len(solution) : Len(solution[i]) < 2

\* the first loop of validate_solution
HasShortWord(solution) == \E i \in 1..Len(solution) : Len(solution[i]) < 3

\* the merge loop as it would be without its comparison
RECURSIVE MergeWords_Unchecked(_, _, _)
MergeWords_Unchecked(solution, i, seq) ==
    IF i > Len(solution) THEN [ok |-> TRUE, seq |-> seq]
    ELSE MergeWords_Unchecked(solution, i + 1, seq \o Tail(solution[i]))

\* the merge loop of validate_solution: the letters merged so far, or the
\* chain error
RECURSIVE MergeWords(_, _, _)
MergeWords(solution, i, seq) ==
    IF i > Len(solution) THEN [ok |-> TRUE, seq |-> seq]
    ELSE IF Head(solution[i]) # Last(seq) THEN [ok |-> FALSE, seq |-> seq]
    ELSE MergeWords(solution, i + 1, seq \o Tail(solution[i]))

\* the inner 'sides loop: the first side other than prev_side that holds
\* the letter, or -1
FindSide(letter, prev_side) ==
    LET found == { i \in 0..(S - 1) : i # prev_side /\ letter \in Range(sides[i + 1]) }
    IN IF found = {} THEN -1 ELSE Min(found)

\* side.iter().position(..): the first offset of the letter on the side
PositionOnSide(letter, side) ==
    Min({ k \in 0..(L - 1) : sides[side + 1][k + 1] = letter })

\* the 'letters loop: the set of <<side, offset>> visited, or the failure
RECURSIVE WalkBoard(_, _, _, _)
WalkBoard(seq, k, prev_side, visited_letters) ==
    IF k > Len(seq) THEN [ok |-> TRUE, visited |-> visited_letters]
    ELSE LET i == FindSide(seq[k], prev_side)
         IN IF i = -1 THEN [ok |-> FALSE, visited |-> visited_letters]
            ELSE WalkBoard(seq, k + 1, i,
                           visited_letters \cup { <<i, PositionOnSide(seq[k], i)>> })

AllPositions == (0..(S - 1)) \X (0..(L - 1))

\* validate_solution as it would be if it merged the words before it
\* looked at their lengths
validate_solution_MergeFirst(solution) ==
    IF solution = <<>> THEN "Panic"
    ELSE LET merged == MergeWords(solution, 2, solution[1])
         IN IF ~merged.ok THEN "ChainMismatch"
            ELSE IF HasShortWord(solution) THEN "TooShort"
            ELSE LET walk == WalkBoard(merged.seq, 1, -1, {})
                 IN IF ~walk.ok THEN "FailedToFind"
                    ELSE IF walk.visited # AllPositions THEN "NotAllUsed"
                    ELSE "Ok"

validate_solution(solution) ==
    IF HasShortWord(solution) THEN "TooShort"
    ELSE IF solution = <<>> THEN "Panic"
    ELSE LET merged == MergeWords(solution, 2, solution[1])
         IN IF ~merged.ok THEN "ChainMismatch"
            ELSE LET walk == WalkBoard(merged.seq, 1, -1, {})
                 IN IF ~walk.ok THEN "FailedToFind"
                    ELSE IF walk.visited # AllPositions THEN "NotAllUsed"
                    ELSE "Ok"

\* the letters of a word sequence with each later word's first letter dropped
RECURSIVE Concatenated(_, _)
Concatenated(words, i) ==
    IF i > Len(words) THEN <<>>
    ELSE (IF i = 1 THEN words[i] ELSE Tail(words[i])) \o Concatenated(words, i + 1)

\* LBPuzzle::validate_coverage: the validator's adjacency-and-coverage walk
validate_coverage(words) ==
    LET walk == WalkBoard(Concatenated(words, 1), 1, -1, {})
    IN walk.ok /\ walk.visited = AllPositions

-----------------------------------------------------------------------------
(* smart_dict (src/src/dictionary.rs) *)

\* str::trim on a line
RECURSIVE trim(_)
trim(line) ==
    IF line = <<>> THEN line
    ELSE IF Head(line) = " " THEN trim(Tail(line))
    ELSE IF Last(line) = " " THEN trim(SubSeq(line, 1, Len(line) - 1))
    ELSE line

side_to_valids(side_i) == valid_letters(side_i * L)

all_valids == valid_letters(-1)

\* side_to_valids.get(idx as usize / L).unwrap_or(&all_valids); -1 as usize
\* is past every side
idx_to_valids(idx) ==
    IF idx >= 0 /\ idx \div L < S THEN side_to_valids(idx \div L) ELSE all_valids

\* all_letters().chars().position(|c| c == letter)
PositionOf(letter) == Min({ i \in 0..(n_letters - 1) : all_letters[i + 1] = letter })

\* the loop over the letters of one word in _Builder::new
RECURSIVE LettersFollow(_, _, _)
LettersFollow(word, k, prev_letter_idx) ==
    IF k > Len(word) THEN TRUE
    ELSE IF word[k] \notin idx_to_valids(prev_letter_idx) THEN FALSE
    ELSE LettersFollow(word, k + 1, PositionOf(word[k]))

\* the conditions under which _Builder::new adds a trimmed line
IsValidWord(word) == Len(word) >= 3 /\ LettersFollow(word, 1, -1)

\* the words added as they would be if a word already in a built
\* dictionary were skipped
AddedWords_SkipKnown ==
    LET IsNew(word) == IsValidWord(word) /\ \A i \in 1..Len(_flat) : _flat[i][2] # word
    IN SelectSeq([i \in 1..Len(raw) |-> trim(raw[i])], IsNew)

\* the words handed to _add_word, in file order
AddedWords == SelectSeq([i \in 1..Len(raw) |-> trim(raw[i])], IsValidWord)

Perms(n) == { p \in [1..n -> 1..n] : \A i, j \in 1..n : i # j => p[i] # p[j] }

\* _sort as it would be with the comparison turned round
IsSorted_Ascending(f) ==
    \A i, j \in 1..Len(f) : (i < j /\ f[i][1] = f[j][1]) => Len(f[i]) <= Len(f[j])

\* _sort: within the words of one first letter, longest first
IsSorted(f) ==
    \A i, j \in 1..Len(f) : (i < j /\ f[i][1] = f[j][1]) => Len(f[i]) >= Len(f[j])

\* _Builder::get_flat_indexed: the groups of the map laid end to end
IsFlatMap(f) ==
    \A i, j, k \in 1..Len(f) : (i < j /\ j < k /\ f[i][1] = f[k][1]) => f[j][1] = f[i][1]

\* the orders in which the sorted groups can come out of the HashMap: the
\* order of the groups and the order of equally long words are not fixed
FlatOrders(ws) ==
    { f \in { [i \in 1..Len(ws) |-> ws[p[i]]] : p \in Perms(Len(ws)) } :
        IsSorted(f) /\ IsFlatMap(f) }

\* the Vec stored under first letter c
GroupOf(f, c) == LET StartsWith(w) == w[1] = c IN SelectSeq(f, StartsWith)

EmptyMap == [c \in {} |-> <<>>]

\* SmartDictionary::new
SmartDictionaryNew ==
    /\ pc = "new_dict"
    /\ \E f \in FlatOrders(AddedWords) :
        /\ _flat' = [i \in 1..Len(f) |-> <<i - 1, f[i]>>]
        /\ _map' = [c \in { w[1] : w \in Range(f) } |-> GroupOf(f, c)]
    /\ pc' = "solve_pre_dict"
    /\ UNCHANGED <<puzzle_vars, dfs_vars, astar_vars, validate_vars, call, brute_vars>>

get(c) == IF c \in DOMAIN _map THEN Some(_map[c]) ELSE None

get_flat == [i \in 1..Len(_flat) |-> _flat[i][2]]

get_flat_indexed == _flat

\* get_indexed as it would be without the skip to the group's first word
get_indexed_FromStart(c) ==
    IF ~get(c).some THEN None
    ELSE Some(SubSeq(_flat, 1, Len(get(c).val)))

get_indexed(c) ==
    IF ~get(c).some THEN None
    ELSE LET letter_words == get(c).val
             found == { i \in 1..Len(_flat) : _flat[i][2] = letter_words[1] }
         IN IF found = {} THEN None
            ELSE LET first_idx == Min(found) - 1
                     upto == IF first_idx + Len(letter_words) < Len(_flat)
                             THEN first_idx + Len(letter_words) ELSE Len(_flat)
                 IN Some(SubSeq(_flat, first_idx + 1, upto))

\* get_word_by_idx as it would be if it counted from the end
get_word_by_idx_FromEnd(idx) == _flat[Len(_flat) - idx][2]

get_word_by_idx(idx) == _flat[idx + 1][2]

-----------------------------------------------------------------------------
(* Pre-Dictionary greedy DFS (src/src/solvers/pre_dict.rs) *)

\* a call of _solve_helper: its words, and once past the base cases the
\* matching words and the position of the for loop in them
Call(words) == [words |-> words, looping |-> FALSE, matching_words |-> <<>>, i |-> 1]

Top == stack[Len(stack)]

Caller == SubSeq(stack, 1, Len(stack) - 1)

\* solve_pre_dict calls _solve_helper with no words
SolvePreDict ==
    /\ pc = "solve_pre_dict"
    /\ stack' = <<Call(<<>>)>>
    /\ pc' = "_solve_helper"
    /\ UNCHANGED <<puzzle_vars, dict_vars, dfs_result, astar_vars, validate_vars, call, brute_vars>>

\* the base case as it would be if it let one more word through
OutOfWords_OneMore(words) == Len(words) > max_words + 1

\* the first base case of _solve_helper
OutOfWords(words) == Len(words) > max_words

\* the matching words as they would be if taken by the last word's first
\* letter
MatchingWords_FirstLetter(words) ==
    IF words = <<>> THEN Some(get_flat)
    ELSE get(Head(Last(words)))

\* the words the for loop of _solve_helper goes through, or None for a
\* dead end
MatchingWords(words) ==
    IF words = <<>> THEN Some(get_flat)
    ELSE get(Last(Last(words)))

\* a call returns None: the caller's loop goes on, or solve_pre_dict returns
ReturnNone ==
    /\ stack' = Caller
    /\ dfs_result' = None
    /\ pc' = IF Len(stack) = 1 THEN "astar_new" ELSE pc

\* a call returns Some(words), and every caller returns it at once
ReturnSome(words) ==
    /\ stack' = <<>>
    /\ dfs_result' = Some(words)
    /\ pc' = "astar_new"

\* _solve_helper from its entry to the for loop
SolveHelperEnter ==
    /\ pc = "_solve_helper"
    /\ stack # <<>>
    /\ ~Top.looping
    /\ IF OutOfWords(Top.words) THEN ReturnNone
       ELSE IF validate_coverage(Top.words) THEN ReturnSome(Top.words)
       ELSE IF ~MatchingWords(Top.words).some THEN ReturnNone
       ELSE /\ stack' = Caller \o
                  <<[Top EXCEPT !.looping = TRUE,
                                !.matching_words = MatchingWords(Top.words).val]>>
            /\ UNCHANGED <<dfs_result, pc>>
    /\ UNCHANGED <<puzzle_vars, dict_vars, astar_vars, validate_vars, call, brute_vars>>

\* one turn of the for loop of _solve_helper
SolveHelperLoop ==
    /\ pc = "_solve_helper"
    /\ stack # <<>>
    /\ Top.looping
    /\ IF Top.i > Len(Top.matching_words) THEN ReturnNone
       ELSE LET word == Top.matching_words[Top.i]
                advanced == Caller \o <<[Top EXCEPT !.i = Top.i + 1]>>
            IN /\ stack' = IF word \in Range(Top.words) THEN advanced
                           ELSE advanced \o <<Call(Append(Top.words, word))>>
               /\ UNCHANGED <<dfs_result, pc>>
    /\ UNCHANGED <<puzzle_vars, dict_vars, astar_vars, validate_vars, call, brute_vars>>

-----------------------------------------------------------------------------
(* A* solver (src/src/solvers/a_star.rs) *)

\* f32::round of num/den, halves away from zero
Round(num, den) == (2 * num + den) \div (2 * den)

\* AStarSolver::new(edge_weight_factor), the factor a multiple of 1/FactorDen
AStarSolverNew ==
    /\ pc = "astar_new"
    /\ \E num \in 0..FactorDen : edge_weight' = Round(num * (L * S), FactorDen)
    /\ pc' = "solve"
    /\ UNCHANGED <<puzzle_vars, dict_vars, dfs_vars, parents, to_see, search,
                   astar_result, validate_vars, call, brute_vars>>

Vertex(letter, coverage, words_path) ==
    [letter |-> letter, coverage |-> coverage, _words_path |-> words_path]

new_start == Vertex(NoLetter, {}, None)

\* the base case as it would be if it let one more word through
VisitedMaxWords_OneMore(v) == Len(v._words_path.val) = max_words + 1

\* the base case of successors
VisitedMaxWords(v) == Len(v._words_path.val) = max_words

\* successors as it would be if the vertex's letter were not looked at
NextWords_AnyLetter(v) == get_flat_indexed

\* the words successors gathers for a vertex
NextWords(v) ==
    IF v.letter # NoLetter
    THEN (IF get_indexed(v.letter).some THEN get_indexed(v.letter).val ELSE <<>>)
    ELSE get_flat_indexed

successors(v) ==
    IF VisitedMaxWords(v) THEN None
    ELSE LET next_words == NextWords(v)
         IN Some([k \in 1..Len(next_words) |->
                    LET idx == next_words[k][1]
                        w == next_words[k][2]
                    IN <<Vertex(Last(w), v.coverage \cup Range(w),
                                Some(Append(v._words_path.val, idx))),
                         edge_weight>>])

heuristic(v) == (L * S) - Cardinality(v.coverage)

\* the third closure handed to astar
success(v) == heuristic(v) = 0

\* astar keeps, for every node seen, its parent and its cost; the start
\* node is its own parent here
Entry(ps, node) == CHOOSE e \in ps : e.node = node

\* solve calls _helper, which calls astar: the start node is seen and queued
AstarBegin ==
    /\ pc = "solve"
    /\ parents' = { [node |-> new_start, parent |-> new_start, cost |-> 0] }
    /\ to_see' = { [estimated_cost |-> 0, cost |-> 0, node |-> new_start] }
    /\ pc' = "astar"
    /\ UNCHANGED <<puzzle_vars, dict_vars, dfs_vars, edge_weight, search,
                   astar_result, validate_vars, call, brute_vars>>

\* the heap as it would be if its order were turned around
PopsBefore_Reversed(e, o) ==
    \/ e.estimated_cost > o.estimated_cost
    \/ e.estimated_cost = o.estimated_cost /\ e.cost >= o.cost

\* the order of the heap: least estimated cost first, then greatest cost;
\* among equals the heap may pop any
PopsBefore(e, o) ==
    \/ e.estimated_cost < o.estimated_cost
    \/ e.estimated_cost = o.estimated_cost /\ e.cost >= o.cost

Poppable == { e \in to_see : \A o \in to_see : PopsBefore(e, o) }

\* the for loop of astar over the successors of node
RECURSIVE Relax(_, _, _, _, _, _)
Relax(succ, k, node, cost, ps, heap) ==
    IF k > Len(succ) THEN [parents |-> ps, to_see |-> heap]
    ELSE LET successor == succ[k][1]
             new_cost == cost + succ[k][2]
             seen == { e \in ps : e.node = successor }
             queued == heap \cup { [estimated_cost |-> new_cost + heuristic(successor),
                                    cost |-> new_cost, node |-> successor] }
             entered == (ps \ seen) \cup
                            { [node |-> successor, parent |-> node, cost |-> new_cost] }
         IN IF seen = {} \/ Entry(ps, successor).cost > new_cost
            THEN Relax(succ, k + 1, node, cost, entered, queued)
            ELSE Relax(succ, k + 1, node, cost, ps, heap)

\* reverse_path: the nodes from the start to node
RECURSIVE reverse_path(_, _)
reverse_path(ps, node) ==
    LET e == Entry(ps, node)
    IN IF e.parent = node THEN <<node>>
       ELSE Append(reverse_path(ps, e.parent), node)

\* one turn of the while loop of astar
AstarLoop ==
    /\ pc = "astar"
    /\ to_see # {}
    /\ \E top \in Poppable :
        LET node == top.node
            c == Entry(parents, node).cost
            popped == to_see \ {top}
        IN IF success(node)
           THEN /\ search' = Some([path |-> reverse_path(parents, node), cost |-> top.cost])
                /\ to_see' = popped
                /\ pc' = "parse"
                /\ UNCHANGED parents
           ELSE IF top.cost > c
           THEN /\ to_see' = popped
                /\ UNCHANGED <<parents, search, pc>>
           ELSE LET succ == IF successors(node).some THEN successors(node).val ELSE <<>>
                    after == Relax(succ, 1, node, top.cost, parents, popped)
                IN /\ parents' = after.parents
                   /\ to_see' = after.to_see
                   /\ UNCHANGED <<search, pc>>
    /\ UNCHANGED <<puzzle_vars, dict_vars, dfs_vars, edge_weight, astar_result,
                   validate_vars, call, brute_vars>>

\* the heap is empty: astar returns None
AstarExhausted ==
    /\ pc = "astar"
    /\ to_see = {}
    /\ search' = None
    /\ pc' = "parse"
    /\ UNCHANGED <<puzzle_vars, dict_vars, dfs_vars, edge_weight, parents, to_see,
                   astar_result, validate_vars, call, brute_vars>>

\* the sanity check of _helper on what astar found
PathDisagrees(path, cost) == (Len(path) - 1) # cost \div (L * S)

\* the words behind a path of dictionary indices
WordPath(idx_path) == [k \in 1..Len(idx_path) |-> get_word_by_idx(idx_path[k])]

\* _helper after astar: the sanity check, then the indices turned to words
HelperParse ==
    /\ pc = "parse"
    /\ IF search.some /\ PathDisagrees(search.val.path, search.val.cost)
       THEN /\ pc' = "panicked"
            /\ UNCHANGED astar_result
       ELSE /\ pc' = "done"
            /\ astar_result' =
                 IF search.some
                 THEN Some(WordPath(Last(search.val.path)._words_path.val))
                 ELSE None
    /\ UNCHANGED <<puzzle_vars, dict_vars, dfs_vars, edge_weight, parents, to_see,
                   search, validate_vars, call, brute_vars>>

-----------------------------------------------------------------------------
(* One run: a puzzle and a dictionary file, the SmartDictionary built for  *)
(* them, then the Pre-Dictionary solver and the A* solver on it.           *)

\* the dictionary files: up to MaxRaw of the lines, in the order of Lines
\* (the order of the lines of a file does not reach the dictionary's own
\* order, see FlatOrders)
RawFiles ==
    { [i \in 1..Len(ix) |-> Lines[ix[i]]] :
        ix \in { jx \in SeqsOf(1..Len(Lines), 0, MaxRaw) :
                    \A i \in 1..(Len(jx) - 1) : jx[i] <= jx[i + 1] } }

-----------------------------------------------------------------------------
(* The direct callers of validate_solution *)

InitPuzzle ==
    /\ sides \in Boards
    /\ max_words \in 0..MaxWordsBound

Idle ==
    /\ _map = EmptyMap
    /\ _flat = <<>>
    /\ stack = <<>>
    /\ dfs_result = None
    /\ edge_weight = 0
    /\ parents = {}
    /\ to_see = {}
    /\ search = None
    /\ astar_result = None
    /\ v_solution = <<>>
    /\ v_result = "none"
    /\ call = NoCall
    /\ solution_queue = <<>>
    /\ bf_result = None

InitValidate ==
    /\ InitPuzzle
    /\ raw = <<>>
    /\ Idle
    /\ pc = "validate"

ValidateSolution ==
    /\ pc = "validate"
    /\ \E solution \in SeqsOf(CandWords, 0, MaxCand) :
        /\ v_solution' = solution
        /\ v_result' = validate_solution(solution)
    /\ pc' = "validated"
    /\ UNCHANGED <<puzzle_vars, dict_vars, dfs_vars, astar_vars, call, brute_vars>>

NextValidate == ValidateSolution

SpecValidate == InitValidate /\ [][NextValidate]_vars

Init ==
    /\ InitPuzzle
    /\ raw \in RawFiles
    /\ Idle
    /\ pc = "new_dict"

Next ==
    \/ SmartDictionaryNew
    \/ SolvePreDict
    \/ SolveHelperEnter
    \/ SolveHelperLoop
    \/ AStarSolverNew
    \/ AstarBegin
    \/ AstarLoop
    \/ AstarExhausted
    \/ HelperParse

Spec == Init /\ [][Next]_vars

-----------------------------------------------------------------------------
(* The rules of the puzzle, stated on their own *)

WordsLongEnough(solution) == \A i \in 1..Len(solution) : Len(solution[i]) >= 3

WordsChain(solution) ==
    \A i \in 2..Len(solution) : solution[i][1] = solution[i - 1][Len(solution[i - 1])]

Longest(solution) ==
    IF solution = <<>> THEN 0
    ELSE CHOOSE n \in { Len(solution[i]) : i \in 1..Len(solution) } :
            \A i \in 1..Len(solution) : Len(solution[i]) <= n

\* the letters written when the words are played one after the other
LettersPlayed(solution) ==
    LET Start(i) == IF i = 1 THEN 1 ELSE 2
        Letter(i, k) == solution[i][k]
        Pairs == { <<i, k>> \in (1..Len(solution)) \X (1..Longest(solution)) :
                      Start(i) <= k /\ k <= Len(solution[i]) }
        Before(p, q) == p[1] < q[1] \/ (p[1] = q[1] /\ p[2] < q[2])
        Rank(p) == Cardinality({ q \in Pairs : Before(q, p) }) + 1
    IN [n \in 1..Cardinality(Pairs) |->
            LET p == CHOOSE q \in Pairs : Rank(q) = n IN Letter(p[1], p[2])]

LetterAt(pos) == sides[pos[1] + 1][pos[2] + 1]

\* where a way around the board can stand after the first k letters: the
\* position of the last letter, and the positions touched so far
RECURSIVE WaysAround(_, _)
WaysAround(letters, k) ==
    IF k = 0 THEN { [at |-> <<-1, -1>>, touched |-> {}] }
    ELSE { [at |-> pos, touched |-> way.touched \cup {pos}] :
              <<way, pos>> \in
                 { wp \in WaysAround(letters, k - 1) \X AllPositions :
                      /\ LetterAt(wp[2]) = letters[k]
                      /\ wp[2][1] # wp[1].at[1] } }

\* the letters can be played with no two in a row on one side, touching
\* every position of the board
PlayableAndCovering(letters) ==
    \E way \in WaysAround(letters, Len(letters)) : way.touched = AllPositions

ObeysRules(solution) ==
    /\ WordsLongEnough(solution)
    /\ WordsChain(solution)
    /\ PlayableAndCovering(LettersPlayed(solution))

\* the chains of at most max_words dictionary words
DictionaryChains == SeqsOf({ _flat[i][2] : i \in 1..Len(_flat) }, 1, max_words)

AstarOver == pc \in {"done", "panicked"}

-----------------------------------------------------------------------------
(* test_validate_solution (src/src/lib.rs): the board of 6 November 2024   *)
(* and sequences of the words the tests try on it                          *)

nov_6_2024 ==
    << <<"e", "r", "b">>, <<"u", "l", "n">>, <<"i", "m", "k">>, <<"j", "a", "v">> >>

\* the max_words the tests of lib.rs build that board with
TestMaxWords == {4, 5, 6}

\* the words of valids and invalids
TestWords ==
    { <<"j", "u", "v", "e", "n", "i", "l", "e">>,
      <<"e", "m", "b", "a", "r", "k">>,
      <<"m", "u", "r", "k">>,
      <<"k", "a", "n", "j", "i">>,
      <<"i", "n", "v", "i", "a", "b", "l", "e">>,
      <<"p", "o", "o", "p">>,
      <<"j", "u">>,
      <<"u", "v">> }

InitTests ==
    /\ sides = nov_6_2024
    /\ max_words \in TestMaxWords
    /\ raw = <<>>
    /\ Idle
    /\ pc = "validate"

\* one pass of the loops over valids and invalids
TestValidateSolution ==
    /\ pc = "validate"
    /\ \E example \in SeqsOf(TestWords, 0, MaxCand) :
        /\ v_solution' = example
        /\ v_result' = validate_solution(example)
    /\ pc' = "validated"
    /\ UNCHANGED <<puzzle_vars, dict_vars, dfs_vars, astar_vars, call, brute_vars>>

NextTests == TestValidateSolution

SpecTests == InitTests /\ [][NextTests]_vars

-----------------------------------------------------------------------------
(* LBPuzzle::from_str (src/src/lib.rs), called on a string for a type of   *)
(* n_sides sides of n_per_side letters                                     *)

\* str::split_whitespace: the maximal runs of non-blank characters, in order
RECURSIVE split_whitespace(_, _, _)
split_whitespace(str, word, words) ==
    IF str = <<>> THEN (IF word = <<>> THEN words ELSE Append(words, word))
    ELSE IF Head(str) = " "
    THEN split_whitespace(Tail(str), <<>>,
                          IF word = <<>> THEN words ELSE Append(words, word))
    ELSE split_whitespace(Tail(str), Append(word, Head(str)), words)

InputError(msg) == [ok |-> FALSE, err |-> msg]

\* the conversion as it would be if it cut a longer group down to the side
TryInto_Truncating(chars, n_per_side) ==
    IF Len(chars) >= n_per_side THEN Some(SubSeq(chars, 1, n_per_side)) ELSE None

\* Vec<char>::try_into::<[char; L]>: only a Vec of exactly L chars converts
TryInto(chars, n_per_side) ==
    IF Len(chars) = n_per_side THEN Some(chars) ELSE None

\* the for loop of from_str over the groups, from the i-th on
RECURSIVE FillSides(_, _, _, _)
FillSides(_s_vec, i, filled, n_per_side) ==
    IF i > Len(_s_vec) THEN [ok |-> TRUE, sides |-> filled]
    ELSE LET side == TryInto(_s_vec[i], n_per_side)
         IN IF ~side.some THEN InputError("wrong letters")
            ELSE FillSides(_s_vec, i + 1, [filled EXCEPT ![i] = side.val], n_per_side)

from_str(max_words_arg, sides_str, n_sides, n_per_side) ==
    LET _s_vec == split_whitespace(sides_str, <<>>, <<>>)
        blank == [i \in 1..n_sides |-> [k \in 1..n_per_side |-> " "]]
    IN IF Len(_s_vec) # n_sides THEN InputError("Wrong number of sides.")
       ELSE LET filled == FillSides(_s_vec, 1, blank, n_per_side)
            IN IF ~filled.ok THEN filled
               ELSE [ok |-> TRUE, sides |-> filled.sides, max_words |-> max_words_arg]

InitFromStr ==
    /\ sides = <<>>
    /\ max_words = 0
    /\ raw = <<>>
    /\ Idle
    /\ pc = "from_str"

\* one call of LBPuzzle::<n_sides, n_per_side>::from_str; the puzzle it
\* returns is the puzzle of the state
FromStr ==
    /\ pc = "from_str"
    /\ \E n_sides \in 1..MaxSides, n_per_side \in 1..MaxSideLen,
          max_words_arg \in 0..MaxWordsBound, sides_str \in SeqsOf(Chars, 0, MaxStr) :
        LET ret == from_str(max_words_arg, sides_str, n_sides, n_per_side)
        IN /\ call' = [op |-> "from_str", max_words |-> max_words_arg,
                       sides_str |-> sides_str, n_sides |-> n_sides,
                       n_per_side |-> n_per_side, ret |-> ret]
           /\ IF ret.ok THEN sides' = ret.sides /\ max_words' = ret.max_words
              ELSE UNCHANGED <<sides, max_words>>
    /\ pc' = "parsed"
    /\ UNCHANGED <<raw, dict_vars, dfs_vars, astar_vars, validate_vars, brute_vars>>

NextFromStr == FromStr

SpecFromStr == InitFromStr /\ [][NextFromStr]_vars

\* the groups of a string: its maximal runs of non-blank characters, each
\* as <<first, last>>
Groups(str) ==
    { g \in (1..Len(str)) \X (1..Len(str)) :
        /\ g[1] <= g[2]
        /\ \A k \in g[1]..g[2] : str[k] # " "
        /\ g[1] = 1 \/ str[g[1] - 1] = " "
        /\ g[2] = Len(str) \/ str[g[2] + 1] = " " }

\* the s-th group, counted from 0
GroupAt(str, s) ==
    CHOOSE g \in Groups(str) : Cardinality({ h \in Groups(str) : h[1] < g[1] }) = s

SplitsInto(str, n_sides, n_per_side) ==
    /\ Cardinality(Groups(str)) = n_sides
    /\ \A g \in Groups(str) : g[2] - g[1] + 1 = n_per_side

NotBlank(c) == c # " "

-----------------------------------------------------------------------------
(* The index functions of LBPuzzle, called on a puzzle                     *)

InitLetters ==
    /\ InitPuzzle
    /\ raw = <<>>
    /\ Idle
    /\ pc = "valid_letters"

\* valid_letters, idx_to_side and is_idx_on_side called on an index from
\* two below the board to two past it, and a side from -1 to S
ValidLetters ==
    /\ pc = "valid_letters"
    /\ \E prev_idx \in (-2)..(n_letters + 1), side \in (-1)..S :
        call' = [op |-> "valid_letters", prev_idx |-> prev_idx, side |-> side,
                 letters |-> valid_letters(prev_idx),
                 to_side |-> idx_to_side(prev_idx),
                 on_side |-> is_idx_on_side(prev_idx, side)]
    /\ pc' = "called"
    /\ UNCHANGED <<puzzle_vars, dict_vars, dfs_vars, astar_vars, validate_vars,
                   brute_vars>>

NextLetters == ValidLetters

SpecLetters == InitLetters /\ [][NextLetters]_vars

\* the letters standing on the sides other than side
LettersOffSide(side) ==
    { LetterAt(pos) : pos \in { q \in AllPositions : q[1] # side } }

-----------------------------------------------------------------------------
(* SmartDictionary::new called twice on one puzzle and one dictionary file *)

\* the boards of Boards, and a 2x2 board with the letter a on both sides
DictBoards == Boards \cup { << <<"a", "b">>, <<"a", "c">> >> }

\* the lines of the files: words of two and of three letter groups, a short
\* word, a line that trims to another line's word, a letter off the board
DictLines ==
    << <<"a", "c", "e", "b", "d", "f">>,
       <<"a", "c", "e">>,
       <<" ", "a", "c", "e", " ">>,
       <<"a", "d", "b">>,
       <<"c", "a", "d">>,
       <<"c", "b", " ">>,
       <<"a", "b", "c">>,
       <<"b", "a", "c">>,
       <<"a", "a", "b">>,
       <<"a", "c", "x">> >>

\* the files of up to MaxRaw of the lines, the same line as often as it fits
FilesOf(lines) ==
    { [i \in 1..Len(ix) |-> lines[ix[i]]] :
        ix \in { jx \in SeqsOf(1..Len(lines), 0, MaxRaw) :
                    \A i \in 1..(Len(jx) - 1) : jx[i] <= jx[i + 1] } }

DictFiles == FilesOf(DictLines)

InitDict ==
    /\ sides \in DictBoards
    /\ max_words \in 0..MaxWordsBound
    /\ raw \in DictFiles
    /\ Idle
    /\ pc = "new_dict"

\* a second SmartDictionary::new on the same puzzle and file; the
\* dictionary it returns is kept in call
SmartDictionaryNewAgain ==
    /\ pc = "solve_pre_dict"
    /\ \E f \in FlatOrders(AddedWords) :
        call' = [op |-> "SmartDictionary::new",
                 _flat |-> [i \in 1..Len(f) |-> <<i - 1, f[i]>>],
                 _map |-> [c \in { w[1] : w \in Range(f) } |-> GroupOf(f, c)]]
    /\ pc' = "rebuilt"
    /\ UNCHANGED <<puzzle_vars, dict_vars, dfs_vars, astar_vars, validate_vars,
                   brute_vars>>

NextDict ==
    \/ SmartDictionaryNew
    \/ SmartDictionaryNewAgain

SpecDict == InitDict /\ [][NextDict]_vars

\* SmartDictionary::len
len == Len(_flat)

\* the trimmed lines of the file
RawWords == [i \in 1..Len(raw) |-> trim(raw[i])]

\* how often a word stands in a sequence of words
Count(word, words) == Cardinality({ i \in 1..Len(words) : words[i] = word })

Built == pc # "new_dict"


\* the letter stands somewhere on the board
OnBoard(letter) == \E pos \in AllPositions : LetterAt(pos) = letter

\* the two letters stand on different sides of the board
OnDifferentSides(letter, next) ==
    \E p, q \in AllPositions :
        LetterAt(p) = letter /\ LetterAt(q) = next /\ p[1] # q[1]

\* the filter as the puzzle states it
Playable(word) ==
    /\ Len(word) >= 3
    /\ \A k \in 1..Len(word) : OnBoard(word[k])
    /\ \A k \in 1..(Len(word) - 1) : OnDifferentSides(word[k], word[k + 1])


\* every letter of a line or of a board
AnyLetter ==
    UNION { Range(DictLines[i]) : i \in 1..Len(DictLines) }
        \cup UNION { UNION { Range(b[i]) : i \in 1..Len(b) } : b \in DictBoards }

\* the words of a list of <<index, word>> pairs
WordsOf(indexed) == [k \in 1..Len(indexed) |-> indexed[k][2]]

-----------------------------------------------------------------------------
(* Brute Force (src/src/solvers/brute_force.rs) *)

\* the lines of the file the trie is loaded from: words whose prefixes of
\* two and more letters are words too, so that the search goes on past the
\* first letter, and words that are a solution of a board by themselves
BruteLines ==
    << <<"a", "c">>,
       <<"a", "c", "e">>,
       <<"a", "c", "d">>,
       <<"e", "c">>,
       <<"e", "c", "e">>,
       <<"b", "a">>,
       <<"b", "a", "b">>,
       <<"c", "e", " ">>,
       <<"c", "a", "d", "b">>,
       <<"a", "a", "b">> >>

BruteFiles == FilesOf(BruteLines)

\* Trie::exact_match on the trie load_trie_dictionary builds: every
\* trimmed line of the file is a word of it
exact_match(word) == \E i \in 1..Len(raw) : trim(raw[i]) = word

\* _Solution::end_word: a next word is begun with the last letter of the
\* last one
end_word(soln) ==
    [soln EXCEPT !.words = Append(soln.words, <<Last(Last(soln.words))>>)]

\* the candidates _add_all_valid_letters pushes for a stub: the last word
\* with one more letter, where that is a word of the trie
NewSolutions(soln_stub) ==
    IF Len(soln_stub.words) > MaxBfWords THEN {}
    ELSE LET curr_word == Last(soln_stub.words)
         IN { [soln_stub EXCEPT !.words[Len(soln_stub.words)] = Append(curr_word, letter)] :
                 letter \in { c \in valid_letters(soln_stub.last_idx) :
                                exact_match(Append(curr_word, c)) } }

\* _add_all_valid_letters: the sequences it can push, the HashSet of the
\* valid letters being gone through in any order
Pushed(soln_stub) ==
    LET new == NewSolutions(soln_stub)
    IN { q \in SeqsOf(new, Cardinality(new), Cardinality(new)) : Range(q) = new }

InitBrute ==
    /\ InitPuzzle
    /\ raw \in BruteFiles
    /\ Idle
    /\ pc = "brute_force"

\* solve up to its loop: one candidate for each position of the board
BruteInitialize ==
    /\ pc = "brute_force"
    /\ solution_queue' =
          [i \in 1..n_letters |->
              [words |-> << <<all_letters[i]>> >>, last_idx |-> i - 1,
               visited_letters |-> [k \in 1..n_letters |-> FALSE]]]
    /\ pc' = "bf_loop"
    /\ UNCHANGED <<puzzle_vars, dict_vars, dfs_vars, astar_vars, validate_vars,
                   call, bf_result>>

\* one turn of the while loop of solve
BruteLoop ==
    /\ pc = "bf_loop"
    /\ solution_queue # <<>>
    /\ LET popped == Head(solution_queue)
           soln == [popped EXCEPT !.visited_letters[popped.last_idx + 1] = TRUE]
           curr_word == Last(soln.words)
       IN IF Len(curr_word) >= 3 /\ exact_match(curr_word)
          THEN IF \A k \in 1..n_letters : soln.visited_letters[k]
               THEN /\ bf_result' = Some(soln.words)
                    /\ solution_queue' = Tail(solution_queue)
                    /\ pc' = "bf_done"
               ELSE /\ \E ended \in Pushed(end_word(soln)), longer \in Pushed(soln) :
                          solution_queue' = Tail(solution_queue) \o ended \o longer
                    /\ UNCHANGED <<bf_result, pc>>
          ELSE /\ \E longer \in Pushed(soln) :
                     solution_queue' = Tail(solution_queue) \o longer
               /\ UNCHANGED <<bf_result, pc>>
    /\ UNCHANGED <<puzzle_vars, dict_vars, dfs_vars, astar_vars, validate_vars, call>>

\* the queue is empty: solve returns None
BruteDrained ==
    /\ pc = "bf_loop"
    /\ solution_queue = <<>>
    /\ bf_result' = None
    /\ pc' = "bf_done"
    /\ UNCHANGED <<puzzle_vars, dict_vars, dfs_vars, astar_vars, validate_vars,
                   call, solution_queue>>

NextBrute ==
    \/ BruteInitialize
    \/ BruteLoop
    \/ BruteDrained

SpecBrute == InitBrute /\ [][NextBrute]_vars

\* solve runs on: its loop takes its next turn as long as there is one
SpecBruteFair == InitBrute /\ [][NextBrute]_vars /\ WF_vars(NextBrute)

\* the words of the trie
TrieWords == { trim(raw[i]) : i \in 1..Len(raw) }

\* some sequence of words of the trie is a valid solution of the puzzle
SolutionExists ==
    \E chain \in SeqsOf(TrieWords, 1, MaxBfWords) : validate_solution(chain) = "Ok"


\* no way around the board plays the letters with no two in a row on one
\* side
CannotBePlaced(letters) == WaysAround(letters, Len(letters)) = {}


\* AStarSolver::new has returned
AStarSolverBuilt == pc \in {"solve", "astar", "parse", "done", "panicked"}


\* the words of a vertex's path
PathWords(v) == WordPath(v._words_path.val)

\* the words can be played around the board and touch every position of it
CoversBoard(words) ==
    words # <<>> /\ PlayableAndCovering(LettersPlayed(words))

\* the chains of at most max_words dictionary words that begin with the
\* words of the vertex's path and touch every position of the board
Completions(v) ==
    { chain \in DictionaryChains :
        /\ Len(chain) >= Len(PathWords(v))
        /\ SubSeq(chain, 1, Len(PathWords(v))) = PathWords(v)
        /\ WordsChain(chain)
        /\ CoversBoard(chain) }


\* the letters that go on from a word in progress toward a word of the
\* trie: the next letter of every word that begins with it and is longer
NextLettersOf(curr_word) ==
    { w[Len(curr_word) + 1] :
        w \in { x \in TrieWords : /\ Len(x) > Len(curr_word)
                                  /\ SubSeq(x, 1, Len(curr_word)) = curr_word } }

\* the word lists the extension of a stub is to enqueue: one for each
\* letter that can follow the last letter placed on the board and goes on
\* toward a word of the trie
Extensions(soln_stub) ==
    LET curr_word == Last(soln_stub.words)
    IN { [soln_stub.words EXCEPT ![Len(soln_stub.words)] = Append(curr_word, c)] :
            c \in { x \in NextLettersOf(curr_word) :
                      OnDifferentSides(Last(curr_word), x) } }

\* what one turn of the loop of solve is to enqueue for the candidate it
\* dequeues, when it does not return
ExtendsAsStated ==
    (/\ pc = "bf_loop" /\ pc' = "bf_loop"
     /\ solution_queue # <<>>
     /\ Len(Head(solution_queue).words) < MaxBfWords) =>
        LET soln == Head(solution_queue)
            curr_word == Last(soln.words)
            pushed == SubSeq(solution_queue', Len(solution_queue), Len(solution_queue'))
            expected ==
               Extensions(soln) \cup
                  (IF Len(curr_word) >= 3 /\ exact_match(curr_word)
                   THEN Extensions(end_word(soln)) ELSE {})
        IN /\ { pushed[k].words : k \in 1..Len(pushed) } = expected
           /\ Len(pushed) = Cardinality(expected)

-----------------------------------------------------------------------------
(* Claims *)

\* C1: whenever the A* solver returns a solution, the solution passes
\* validate_solution.
C1_AStarSolutionValid ==
    (pc = "done" /\ astar_result.some) => validate_solution(astar_result.val) = "Ok"

C1_Witness == pc = "done" /\ astar_result.some /\ Len(astar_result.val) = 2

\* C2: with edge weight S*L, no chain of at most max_words dictionary words
\* that is a valid solution has fewer words than the solution A* returns.
C2_AStarMinimumWords ==
    (pc = "done" /\ edge_weight = S * L /\ astar_result.some) =>
        \A chain \in DictionaryChains :
            validate_solution(chain) = "Ok" => Len(astar_result.val) <= Len(chain)

C2_Witness ==
    /\ pc = "done" /\ edge_weight = S * L /\ astar_result.some
    /\ Len(astar_result.val) = 1
    /\ \E chain \in DictionaryChains : Len(chain) = 2 /\ validate_solution(chain) = "Ok"

\* C3: no vertex A* has seen has more than max_words words on its path, no
\* solution it returns has more than max_words words, and with max_words = 0
\* it returns none.
C3_AStarWithinMaxWords ==
    /\ \A e \in parents : Len(e.node._words_path.val) <= max_words
    /\ astar_result.some => Len(astar_result.val) <= max_words
    /\ (pc = "done" /\ max_words = 0) => ~astar_result.some

C3_Witness ==
    /\ pc = "done" /\ ~astar_result.some /\ max_words >= 1
    /\ \E e \in parents : /\ Len(e.node._words_path.val) = max_words
                          /\ NextWords(e.node) # <<>>

\* C4: with edge weight S*L, whenever some chain of at most max_words
\* dictionary words passes validate_solution, A* returns a solution.
C4_AStarFindsSolution ==
    (/\ AstarOver
     /\ edge_weight = S * L
     /\ \E chain \in DictionaryChains : validate_solution(chain) = "Ok")
        => (pc = "done" /\ astar_result.some)

\* C5: for every edge weight between 1 and S*L the sanity check of _helper
\* passes: the panic is never raised.
C5_SanityCheckPasses ==
    edge_weight \in 1..(S * L) => pc # "panicked"

\* C6: whenever the Pre-Dictionary DFS returns a solution, the solution
\* passes validate_solution.
C6_PreDictSolutionValid ==
    dfs_result.some => validate_solution(dfs_result.val) = "Ok"

C6_Witness == dfs_result.some /\ Len(dfs_result.val) = 2

\* C7: a call of _solve_helper with more than max_words words fails before
\* its words are tested for coverage, so no call with that many words goes
\* on to its loop and no solution returned has more than max_words words.
C7_PreDictWithinMaxWords ==
    /\ \A k \in 1..Len(stack) : stack[k].looping => Len(stack[k].words) <= max_words
    /\ dfs_result.some => Len(dfs_result.val) <= max_words

C7_Witness ==
    /\ stack # <<>>
    /\ Len(Top.words) > max_words
    /\ validate_coverage(Top.words)

\* C8: if the Pre-Dictionary DFS returned a solution of k words then, with
\* edge weight S*L, A* returns a solution of at most k words.
C8_AStarNoLongerThanPreDict ==
    (AstarOver /\ edge_weight = S * L /\ dfs_result.some) =>
        (pc = "done" /\ astar_result.some
            /\ Len(astar_result.val) <= Len(dfs_result.val))

\* C9: for a non-empty word sequence validate_solution returns success
\* exactly when every word has at least 3 letters, the words chain, and the
\* merged letters can be played with no two in a row on the same side and
\* every position of the board touched; otherwise it returns an error.
C9_ValidateExactlyTheRules ==
    (pc = "validated" /\ v_solution # <<>>) =>
        /\ v_result = "Ok" <=> ObeysRules(v_solution)
        /\ v_result \in {"Ok", "TooShort", "ChainMismatch", "FailedToFind", "NotAllUsed"}

C11_TestRejectionReasons ==
    (pc = "validated" /\ sides = nov_6_2024 /\ max_words = 6) =>
        /\ v_solution = << <<"p", "o", "o", "p">> >> => v_result = "NotAllUsed"
        /\ v_solution = << <<"j", "u">>, <<"u", "v">> >> => v_result = "TooShort"
        /\ v_solution = << <<"j", "u", "v", "e", "n", "i", "l", "e">> >>
              => v_result = "NotAllUsed"

\* C11 as amended: on that board validate_solution rejects poop because the
\* letter p is not found on the board, ju uv because a word is shorter than
\* 3 letters, and juvenile alone because not all letters were used.
C11_TestRejections ==
    (pc = "validated" /\ sides = nov_6_2024 /\ max_words = 6) =>
        /\ v_solution = << <<"p", "o", "o", "p">> >> => v_result = "FailedToFind"
        /\ v_solution = << <<"j", "u">>, <<"u", "v">> >> => v_result = "TooShort"
        /\ v_solution = << <<"j", "u", "v", "e", "n", "i", "l", "e">> >>
              => v_result = "NotAllUsed"

C11_Witness ==
    /\ pc = "validated" /\ sides = nov_6_2024 /\ max_words = 6
    /\ v_solution = << <<"p", "o", "o", "p">> >>
    /\ v_result = "FailedToFind"

\* C12: from_str returns an InputError exactly when the string does not
\* split into exactly S whitespace-separated groups of exactly L characters;
\* otherwise it returns the puzzle whose sides[s][l] is the l-th character
\* of the s-th group, whose max_words is the argument, and whose
\* all_letters() is the groups one after the other.
C12_FromStrParses ==
    call.op = "from_str" =>
        LET str == call.sides_str
        IN /\ ~call.ret.ok <=> ~SplitsInto(str, call.n_sides, call.n_per_side)
           /\ ~call.ret.ok => call.ret.err \in {"Wrong number of sides.", "wrong letters"}
           /\ call.ret.ok =>
                /\ S = call.n_sides
                /\ \A s \in 0..(call.n_sides - 1) :
                      /\ Len(sides[s + 1]) = call.n_per_side
                      /\ \A l \in 0..(call.n_per_side - 1) :
                            sides[s + 1][l + 1] = str[GroupAt(str, s)[1] + l]
                /\ max_words = call.max_words
                /\ all_letters = SelectSeq(str, NotBlank)

C12_Witness ==
    /\ call.op = "from_str" /\ call.ret.ok
    /\ call.n_sides = 2 /\ call.n_per_side = 1
    /\ Len(call.sides_str) > 3

\* C13: for an index in 0..S*L-1, valid_letters returns exactly the letters
\* on the sides other than side index / L, idx_to_side returns index / L and
\* is_idx_on_side holds for exactly that side; for an index out of range
\* valid_letters returns all the letters of the board.
C13_ValidLetters ==
    call.op = "valid_letters" =>
        IF 0 <= call.prev_idx /\ call.prev_idx < S * L
        THEN /\ call.letters = LettersOffSide(call.prev_idx \div L)
             /\ call.to_side = call.prev_idx \div L
             /\ call.on_side <=> call.side = call.prev_idx \div L
        ELSE call.letters = { LetterAt(pos) : pos \in AllPositions }

C13_Witness ==
    /\ call.op = "valid_letters"
    /\ S = 3 /\ L = 2
    /\ call.prev_idx = 3 /\ call.on_side
    /\ call.letters = {"a", "b", "e", "f"}

\* C14: the SmartDictionary is a filter of the raw word list: a trimmed raw
\* word is retained exactly when it has at least 3 letters, every letter is
\* on the board and every two consecutive letters lie on different sides;
\* nothing else is added, and len() is at most the number of raw words.
C14_DictionaryIsFilter ==
    Built =>
        /\ \A i \in 1..Len(raw) :
              Count(RawWords[i], get_flat) =
                 IF Playable(RawWords[i]) THEN Count(RawWords[i], RawWords) ELSE 0
        /\ \A i \in 1..len : get_flat[i] \in Range(RawWords)
        /\ len <= Len(raw)

\* C15: on any board, also one where a letter stands on more than one side,
\* the validator's walk over a retained word alone never fails with "failed
\* to find letter".
C15_RetainedWordsWalk ==
    Built => \A i \in 1..len : WalkBoard(get_flat[i], 1, -1, {}).ok

\* C16: every word of the group get(c) starts with c, every retained word
\* lies in the group of its first letter and in no other, and within a
\* group the word lengths never increase.
C16_GroupsByFirstLetter ==
    Built =>
        /\ \A c \in AnyLetter : get(c).some =>
              LET group == get(c).val
              IN /\ \A k \in 1..Len(group) : group[k][1] = c
                 /\ \A j, k \in 1..Len(group) : j < k => Len(group[j]) >= Len(group[k])
        /\ \A i \in 1..Len(AddedWords) :
              LET word == AddedWords[i]
              IN /\ get(word[1]).some
                 /\ Count(word, get(word[1]).val) = Count(word, AddedWords)
                 /\ \A c \in AnyLetter \ {word[1]} :
                       get(c).some => Count(word, get(c).val) = 0

C16_Witness ==
    /\ Built
    /\ Cardinality(DOMAIN _map) >= 2
    /\ \E c \in DOMAIN _map :
          Len(_map[c]) >= 2 /\ Len(_map[c][1]) > Len(_map[c][Len(_map[c])])

\* C17: the flattened view lists each index 0..len()-1 exactly once, and
\* for every pair (i, w) of it get_word_by_idx(i) returns w.
C17_FlatIndexRoundTrip ==
    Built =>
        /\ Len(get_flat_indexed) = len
        /\ { get_flat_indexed[k][1] : k \in 1..len } = 0..(len - 1)
        /\ \A k \in 1..len :
              get_word_by_idx(get_flat_indexed[k][1]) = get_flat_indexed[k][2]

C17_Witness ==
    Built /\ len >= 3 /\ get_flat[1] # get_flat[len]

\* C18: for every letter c that has a group, get_indexed(c) returns the
\* words of get(c) in the same order, each with its global index: the word
\* of every pair starts with c and is the word get_word_by_idx returns for
\* the pair's index; also when the groups are flattened in another order
\* and when the raw list holds a word twice.
C18_GetIndexedMatchesGroup ==
    Built =>
        \A c \in AnyLetter : get(c).some =>
            /\ get_indexed(c).some
            /\ WordsOf(get_indexed(c).val) = get(c).val
            /\ \A k \in 1..Len(get_indexed(c).val) :
                  LET pair == get_indexed(c).val[k]
                  IN pair[2][1] = c /\ get_word_by_idx(pair[1]) = pair[2]

C18_Witness ==
    /\ Built
    /\ \E j, k \in 1..len : j # k /\ get_flat[j] = get_flat[k]
    /\ \E c \in DOMAIN _map : get_indexed(c).some /\ get_indexed(c).val[1][1] > 0

C21_BruteForceFindsSolution ==
    (pc = "brute_force" /\ SolutionExists) ~> (pc = "bf_done" /\ bf_result.some)

\* C22: validate_solution reports the first check that fails, in a fixed
\* order: a word shorter than 3 letters is reported even if the words do
\* not chain; a chain mismatch is reported before any walk of the board; a
\* letter that cannot be placed is reported before incomplete coverage.
C22_ChecksInOrder ==
    (pc = "validated" /\ v_solution # <<>>) =>
        /\ ~WordsLongEnough(v_solution) => v_result = "TooShort"
        /\ (WordsLongEnough(v_solution) /\ ~WordsChain(v_solution))
              => v_result = "ChainMismatch"
        /\ (/\ WordsLongEnough(v_solution)
            /\ WordsChain(v_solution)
            /\ CannotBePlaced(LettersPlayed(v_solution)))
              => v_result = "FailedToFind"

C22_Witness ==
    /\ pc = "validated"
    /\ Len(v_solution) = 2
    /\ ~WordsLongEnough(v_solution)
    /\ ~WordsChain(v_solution)
    /\ v_result = "TooShort"

\* C23: for every factor from 0 to 1 AStarSolver::new sets an edge weight
\* that is at least 1 and at most S*L.
C23_EdgeWeightInRange ==
    AStarSolverBuilt => (1 <= edge_weight /\ edge_weight <= S * L)

\* C24: with edge weight S*L, for every vertex the search has reached, h(v)
\* is at most S*L times the number of further words of any chain within
\* max_words that goes on from the vertex's path to full coverage of the
\* board, and the coverage of a vertex never has more than S*L letters.
C24_HeuristicAdmissible ==
    (pc = "astar" /\ edge_weight = S * L) =>
        \A e \in parents :
            /\ Cardinality(e.node.coverage) <= S * L
            /\ \A chain \in Completions(e.node) :
                  heuristic(e.node) <= (S * L) * (Len(chain) - Len(PathWords(e.node)))

\* C25: on every board from_str accepts, also one with a letter at two
\* positions, the goal test h(v) == 0 holds for a vertex exactly when the
\* words on its path cover every position of the board, and the coverage of
\* a vertex is the set of the letters of the words on its path.
C25_GoalIsFullCoverage ==
    pc = "astar" =>
        \A e \in parents :
            /\ success(e.node) <=> CoversBoard(PathWords(e.node))
            /\ e.node.coverage =
                  UNION { Range(PathWords(e.node)[k]) : k \in 1..Len(PathWords(e.node)) }

\* C26: in every Brute Force candidate in the queue last_idx is the board
\* index of the last letter placed in the word in progress, and once the
\* dequeue has marked last_idx the visited bitset is true at exactly the
\* positions of the letters placed so far.
C26_LastIdxIsLastLetter ==
    \A i \in 1..Len(solution_queue) :
        LET soln == solution_queue[i]
            marked == [soln.visited_letters EXCEPT ![soln.last_idx + 1] = TRUE]
        IN /\ all_letters[soln.last_idx + 1] = Last(Last(soln.words))
           /\ { all_letters[k] : k \in { n \in 1..n_letters : marked[n] } } =
                 UNION { Range(soln.words[k]) : k \in 1..Len(soln.words) }

\* C27: the extension of a Brute Force candidate enqueues one new
\* candidate for exactly each letter that can follow the last letter placed
\* on the board and is the next letter of some word of the trie that has
\* the word in progress as a prefix, also when the longer string is only a
\* prefix and no word yet.
C27_ExtensionByPrefix == [][ExtendsAsStated]_vars

\* C28: validate_solution returns success or a BadSolutionError for every
\* word sequence, the empty one too: it never aborts, and on a board of at
\* least one letter the empty sequence is reported as a failure.
C28_ValidateAlwaysReturns ==
    pc = "validated" =>
        /\ v_result \in {"Ok", "TooShort", "ChainMismatch", "FailedToFind", "NotAllUsed"}
        /\ (v_solution = <<>> /\ n_letters >= 1) => v_result # "Ok"

====
